---------------------------- MODULE Spec2Model ----------------------------
(***************************************************************************)
(* Admission-control pipeline of regrada-be: credential resolution (API    *)
(* key with Redis cache-aside, or session cookie), fixed-window rate       *)
(* limiter, monthly usage meter, then the business handler.                *)
(*                                                                         *)
(* One request = one goroutine.  An action is one completed round trip to  *)
(* a store (Redis, Postgres, the identity provider) followed by the        *)
(* synchronous code that runs up to the next round trip.  Time is in       *)
(* seconds and advances by TickSeconds.  A timestamp of 0 is Go's nil.     *)
(***************************************************************************)
EXTENDS Integers, Sequences, FiniteSets, TLC

\* ------------------------------------------------------------------ bounds
TickSeconds  == 150     \* granularity of the model's clock
MonthSeconds == 225    \* length of a billing period in the model
NumCalls     == 2       \* team-endpoint goroutines that can be in flight together
TeamStarts   == 3       \* team-endpoint calls in a run
NumReqs      == 2       \* request goroutines in flight at once
MaxStarts    == 2       \* requests served in a run of the whole pipeline
MainTicks    == 2       \* clock ticks in a run of the whole pipeline
KeyStarts    == 2       \* requests in a run of the API-key path
KeyTicks     == 4       \* clock ticks in a run of the API-key path
UsageStarts  == 3       \* requests in a run of the usage meter
UsageTicks   == 4       \* clock ticks in a run of the usage meter
MeterStarts  == 3       \* requests in a run of concurrent metering
IsoStarts    == 3       \* requests in a run of two principals
BurstStarts  == 102     \* requests of the two concurrent clients of one key
SeqStarts    == 102     \* requests of the one-after-another client
CancelStarts == 2       \* requests in a run with cancellations
TierStarts   == 2       \* requests in a run of the tier enforcement
CacheStarts  == 2       \* requests in a run with an unreliable cache

\* ------------------------------------------------------- program constants
CacheTTL      == 300    \* 5*time.Minute
WindowSeconds == 60     \* now.Unix() / 60
RateKeyTTL    == 120    \* 2*time.Minute
LimitEnterprise == 2000
LimitPro        == 500
LimitStandard   == 100
LimitDefault    == 100
RpmStarter        == 10
RpmTeam           == 100
RpmScale          == 500
RpmEnterprise     == 2000
RpmDefault        == 10
MonthlyStarter    == 50000
MonthlyTeam       == 500000
MonthlyScale      == 5000000
MonthlyEnterprise == 20000000

Reqs    == 1..NumReqs
Secrets == {"s1", "s2", "s3"}
Hashes  == {"h1", "h2", "h3"}
Orgs    == {"o1", "o2"}
Subs    == {"u1", "u2", "u3"}
Slugs   == Orgs \cup {"o3"}
InviteIds == {"i1", "i2"}
Calls   == 1..NumCalls
Tiers   == {"starter", "team", "scale", "enterprise"}

\* sha256 + hex of the bearer secret: deterministic and injective on Secrets
HashOf(s) == CASE s = "s1" -> "h1" [] s = "s2" -> "h2" [] OTHER -> "h3"

VARIABLES
  now,        \* wall clock, seconds
  cfg,        \* what the run exercises: fixed after Init
  apiKeys,    \* api_keys table, by key_hash
  orgs,       \* organizations table (usage columns)
  users,      \* idp_sub -> local user present?
  members,    \* active organization_members rows, <<user, org>>
  membersDeleted, \* soft-deleted organization_members rows, <<user, org>>
  orgSlugs,   \* slugs of the organizations table
  invites,    \* invites table, by id
  calls,      \* per handler goroutine of the team endpoints: position, locals
  cache,      \* Redis apikey:* entries: [hash][part] = [val, exp]
  rate,       \* Redis ratelimit:<hash>:<window> counters
  req,        \* per request goroutine: position, gin context, response
  touch,      \* keys with a last-used update in flight
  hist        \* bookkeeping for the properties

vars == <<now, cfg, apiKeys, orgs, users, members, membersDeleted, orgSlugs, invites,
          calls, cache, rate, req, touch, hist>>

\* the tables and goroutines of the team endpoints
team == <<members, membersDeleted, orgSlugs, invites, calls>>

Max(a, b) == IF a > b THEN a ELSE b

\* ------------------------------------------------------------- tier tables
getLimitForTier(tier) ==
  CASE tier = "enterprise" -> LimitEnterprise
    [] tier = "pro"        -> LimitPro
    [] tier = "standard"   -> LimitStandard
    [] OTHER               -> LimitDefault

\* rateLimitForTier of the API-key handlers: the rate_limit_rpm a new key gets
rateLimitForTier(tier) ==
  CASE tier = "starter"    -> RpmStarter
    [] tier = "team"       -> RpmTeam
    [] tier = "scale"      -> RpmScale
    [] tier = "enterprise" -> RpmEnterprise
    [] OTHER               -> RpmDefault

\* monthlyLimitForTier of the API-key handlers
monthlyLimitForTier(tier) ==
  CASE tier = "starter"    -> MonthlyStarter
    [] tier = "team"       -> MonthlyTeam
    [] tier = "scale"      -> MonthlyScale
    [] tier = "enterprise" -> MonthlyEnterprise
    [] OTHER               -> MonthlyStarter

\* --------------------------------------------------------------- requests
NoOrg == [nil |-> TRUE, tier |-> "", count |-> 0, limit |-> 0, resetAt |-> 0]

IdleReq ==
  [ pc |-> "idle",
    \* the inbound request
    hdr |-> "none", access |-> FALSE, idtok |-> "none", metered |-> FALSE,
    \* gin context keys
    keySet |-> FALSE, keyHash |-> "", orgID |-> "", tier |-> "", userID |-> "",
    \* locals of the middlewares
    hash |-> "", cv |-> "", ct |-> "", co |-> "",
    data |-> [org |-> "", tier |-> ""],
    window |-> 0, limit |-> 0, count |-> 0, org |-> NoOrg,
    \* response
    status |-> 0, code |-> "", rlh |-> <<>>, mh |-> <<>>,
    \* trace of the request
    gates |-> <<>>, handler |-> FALSE, failed |-> {},
    cancelled |-> FALSE,  \* c.Request.Context() is done
    looked |-> FALSE,     \* the authoritative lookup was made
    late |-> FALSE,       \* started more than the cache TTL after the key's revocation
    unusable |-> FALSE,   \* the key was absent or expired when the request started
    dbValid |-> FALSE,    \* the authoritative lookup found the key usable
    wrote |-> FALSE ]     \* a cache entry was written

\* c.JSON(status, ...) followed by c.Abort()
Reject(q, st, code) == [q EXCEPT !.pc = "done", !.status = st, !.code = code]

\* the route's business handler
RunHandler(q) ==
  [q EXCEPT !.pc = "done", !.status = 200, !.code = "OK", !.handler = TRUE]

\* UsageMiddleware.TrackUsage up to its first store call
EnterUsage(q) ==
  LET g == [q EXCEPT !.gates = Append(@, "usage")]
  IN IF g.orgID = "" THEN RunHandler(g) ELSE [g EXCEPT !.pc = "us_incr"]

\* c.Next() of the limiter: what the router put behind it.  The server's
\* router registers every handler right behind the limiter (cfg.usage is
\* FALSE); a router with TrackUsage on the metered routes has cfg.usage TRUE.
AfterLimit(q) ==
  IF cfg.usage /\ q.metered THEN EnterUsage(q) ELSE RunHandler(q)

\* RateLimitMiddleware.Limit up to its first store call
EnterLimit(q) ==
  LET g == [q EXCEPT !.gates = Append(@, "rate")]
  IN IF ~g.keySet THEN AfterLimit(g)
     ELSE [g EXCEPT !.pc = "rl_incr",
                    !.limit = getLimitForTier(g.tier),
                    !.window = now \div WindowSeconds]

Put(r, q) == req' = [req EXCEPT ![r] = q]

\* bookkeeping: one more request of a principal entered the limiter in a window
\* one counter per window for all keys
RateKeyShared(q) == <<"", q.window>>

\* fmt.Sprintf("ratelimit:%s:%d", keyHash, window)
RateKey(q) == <<q.keyHash, q.window>>
Arrivals(k) == IF k \in DOMAIN hist.arrivals THEN hist.arrivals[k] ELSE 0
Arrived(q) ==
  IF q.pc = "rl_incr"
  THEN [hist EXCEPT !.arrivals = (RateKey(q) :> (Arrivals(RateKey(q)) + 1)) @@ @]
  ELSE hist

\* bookkeeping: the limiter decided on a request whose increment succeeded
AdmittedIn(k) == IF k \in DOMAIN hist.admitted THEN hist.admitted[k] ELSE 0
Admitted(g) ==
  IF g.code # "RATE_LIMIT_EXCEEDED"
  THEN [hist EXCEPT !.admitted = (RateKey(g) :> (AdmittedIn(RateKey(g)) + 1)) @@ @]
  ELSE hist

\* the outcomes of a call to a store: it answers, or (where the run lets that
\* store fail) it returns an error
Outcomes(store) == IF store \in cfg.faults THEN {TRUE, FALSE} ELSE {TRUE}

\* a call made with the request's context: a done context makes the client
\* return its error
Call(q, store) == IF q.cancelled THEN {FALSE} ELSE Outcomes(store)

Readable(e) == e.exp # 0 /\ now < e.exp
NoEntry == [val |-> "", exp |-> 0]

\* APIKeyRecord: usable iff not revoked and not past its expiry
Expired(row) == row.expiresAt # 0 /\ row.expiresAt < now
Usable(row) == row.present /\ row.revokedAt = 0 /\ ~Expired(row)

\* a team-endpoint goroutine
IdleCall ==
  [pc |-> "idle", op |-> "", user |-> "", org |-> "", invite |-> "",
   status |-> 0, code |-> ""]

\* ------------------------------------------------------------------- Init
\* stored counts around the two enforcement thresholds of a limit
EdgeCounts(limit) ==
  {limit - 2, limit - 1, limit,
   (limit \div 5) * 6 - 2, (limit \div 5) * 6 - 1, (limit \div 5) * 6}

InitStoresAt(tiers, expiries, start) ==
  /\ now = TickSeconds
  /\ apiKeys \in
       { [h \in Hashes |->
            CASE h = "h1" -> [present |-> TRUE, org |-> "o1", tier |-> t1,
                              revokedAt |-> 0, expiresAt |-> e1, lastUsedAt |-> 0]
              [] h = "h2" -> [present |-> TRUE, org |-> "o2", tier |-> "enterprise",
                              revokedAt |-> 0, expiresAt |-> 0, lastUsedAt |-> 0]
              [] OTHER    -> [present |-> FALSE, org |-> "", tier |-> "",
                              revokedAt |-> 0, expiresAt |-> 0, lastUsedAt |-> 0]]
         : t1 \in tiers, e1 \in expiries }
  /\ \E c1 \in IF start = "edge"
                THEN EdgeCounts(monthlyLimitForTier(apiKeys["h1"].tier)) ELSE {0} :
       orgs = [o \in Orgs |->
                 [tier |-> IF o = "o1" THEN apiKeys["h1"].tier ELSE "enterprise",
                  count |-> IF o = "o1" THEN c1 ELSE 0,
                  limit |-> monthlyLimitForTier(IF o = "o1" THEN apiKeys["h1"].tier
                                                ELSE "enterprise"),
                  resetAt |-> MonthSeconds]]
  /\ users = [s \in Subs |-> s # "u3"]
  /\ members = {<<"u1", "o1">>}
  /\ membersDeleted = {}
  /\ orgSlugs = Orgs
  /\ invites = [i \in InviteIds |->
                  [org |-> IF i = "i1" THEN "o1" ELSE "o2",
                   email |-> IF i = "i1" THEN "u3" ELSE "u2",
                   accepted |-> FALSE, acceptedBy |-> "", revoked |-> FALSE,
                   made |-> {}]]           \* users given a membership from it
  /\ calls = [c \in Calls |-> IdleCall]
  /\ cache = [h \in Hashes |-> [p \in {"valid", "tier", "org"} |-> NoEntry]]
  /\ rate = << >>
  /\ req = [r \in Reqs |-> IdleReq]
  /\ touch = {}
  /\ hist = [started |-> 0, arrivals |-> << >>,
             admitted |-> << >>,                 \* per counter: requests the limiter let through
             incs |-> [o \in Orgs |-> 0],        \* increments since the last reset
             base |-> [o \in Orgs |-> orgs[o].count],
             resetCalls |-> [o \in Orgs |-> 0],  \* ResetMonthlyUsage calls that returned
             resetLog |-> [o \in Orgs |-> <<>>]] \* boundaries set by resets that took effect

InitStores(tiers, expiries) == InitStoresAt(tiers, expiries, "zero")

\* the server as its router wires it: every kind of request, store faults, a
\* short horizon
Init ==
  /\ InitStores({"team"}, {0, TickSeconds})
  /\ cfg = [faults |-> {"db", "idp", "users", "members", "rate"},
            slots |-> {1}, maxStarts |-> MaxStarts, usage |-> FALSE,
            maxNow |-> MainTicks * TickSeconds, cookieAuth |-> TRUE, cancel |-> FALSE,
            hdrs |-> {"none", "blank", "malformed"} \cup Secrets,
            access |-> BOOLEAN, idtoks |-> {"none", "bad"} \cup Subs,
            metered |-> BOOLEAN, revoke |-> {"h1"}]

\* ------------------------------------------------------------------ clock
Tick ==
  /\ now + TickSeconds <= cfg.maxNow
  \* a last-used update ends within its 5 s timeout, before the clock moves
  /\ touch = {}
  /\ now' = now + TickSeconds
  \* Redis drops the keys whose TTL has run out
  /\ cache' = [h \in Hashes |-> [p \in {"valid", "tier", "org"} |->
                 IF cache[h][p].exp # 0 /\ cache[h][p].exp <= now' THEN NoEntry
                 ELSE cache[h][p]]]
  /\ rate' = [k \in {j \in DOMAIN rate : rate[j].exp = 0 \/ rate[j].exp > now'} |-> rate[k]]
  /\ UNCHANGED <<cfg, apiKeys, orgs, users, team, req, touch, hist>>

\* ------------------------------------------- EitherAuthMiddleware.Authenticate
hasAuthorizationHeader(q) == q.hdr \notin {"none", "blank"}

\* AuthMiddleware.Authenticate up to the first cache read
EnterAPIKeyAuth(q) ==
  IF q.hdr = "none" THEN Reject(q, 401, "UNAUTHORIZED")
  ELSE IF q.hdr \notin Secrets THEN Reject(q, 401, "UNAUTHORIZED")
  ELSE [q EXCEPT !.pc = "cache_get1", !.hash = HashOf(q.hdr)]

\* CookieAuthMiddleware.Authenticate up to the token validation
EnterCookieAuth(q) ==
  IF q.idtok = "none" THEN Reject(q, 401, "UNAUTHORIZED")
  ELSE [q EXCEPT !.pc = "validate"]

\* a dispatch that looks at the session cookie first
AuthenticateCookieFirst(q) ==
  IF cfg.cookieAuth /\ q.access THEN EnterCookieAuth(q) ELSE EnterAPIKeyAuth(q)

\* the three branches of EitherAuthMiddleware.Authenticate (apiKeyAuth is
\* never nil in the server)
Authenticate(q) ==
  IF hasAuthorizationHeader(q) THEN EnterAPIKeyAuth(q)
  ELSE IF cfg.cookieAuth /\ q.access THEN EnterCookieAuth(q)
  ELSE EnterAPIKeyAuth(q)

Start(r) ==
  /\ req[r].pc = "idle"
  /\ hist.started < cfg.maxStarts
  /\ r \in cfg.slots
  /\ \E hdr \in cfg.hdrs, access \in cfg.access, idtok \in cfg.idtoks,
        metered \in cfg.metered :
       LET row == apiKeys[HashOf(hdr)]
           q == [IdleReq EXCEPT !.hdr = hdr, !.access = access, !.idtok = idtok,
                                !.metered = metered,
                                !.gates = <<"auth">>,
                                !.late = hdr \in Secrets /\ row.revokedAt # 0
                                         /\ now > row.revokedAt + CacheTTL,
                                !.unusable = hdr \in Secrets /\
                                             (~row.present \/ Expired(row))]
       IN Put(r, Authenticate(q))
  /\ hist' = [hist EXCEPT !.started = @ + 1]
  /\ UNCHANGED <<now, cfg, apiKeys, orgs, users, team, cache, rate, touch>>

\* ------------------------------------------------ AuthMiddleware.Authenticate
\* a read that answers with a stale marker when the store fails
RedisGetStale(h, part, ok) ==
  IF ok /\ Readable(cache[h][part]) THEN cache[h][part].val
  ELSE IF ok THEN "" ELSE "stale"

\* redisClient.Get(ctx, key).Result(): the value, or "" with an error
RedisGet(h, part, ok) ==
  IF ok /\ Readable(cache[h][part]) THEN cache[h][part].val ELSE ""

CacheGet1(r) ==
  /\ req[r].pc = "cache_get1"
  /\ \E ok \in Call(req[r], "cache_get") :
       Put(r, [req[r] EXCEPT !.pc = "cache_get2",
                             !.failed = IF ok THEN @ ELSE @ \cup {"cache_get"},
                             !.cv = RedisGet(req[r].hash, "valid", ok)])
  /\ UNCHANGED <<now, cfg, apiKeys, orgs, users, team, cache, rate, touch, hist>>

CacheGet2(r) ==
  /\ req[r].pc = "cache_get2"
  /\ \E ok \in Call(req[r], "cache_get") :
       Put(r, [req[r] EXCEPT !.pc = "cache_get3",
                             !.failed = IF ok THEN @ ELSE @ \cup {"cache_get"},
                             !.ct = RedisGet(req[r].hash, "tier", ok)])
  /\ UNCHANGED <<now, cfg, apiKeys, orgs, users, team, cache, rate, touch, hist>>

\* third read, then the hit test
CacheGet3(r) ==
  /\ req[r].pc = "cache_get3"
  /\ \E ok \in Call(req[r], "cache_get") :
       LET q == [req[r] EXCEPT !.co = RedisGet(req[r].hash, "org", ok),
                               !.failed = IF ok THEN @ ELSE @ \cup {"cache_get"}]
           hit == EnterLimit([q EXCEPT !.keySet = TRUE, !.keyHash = q.hash,
                                       !.orgID = q.co, !.tier = q.ct])
       IN IF q.cv # "" /\ q.ct # "" /\ q.co # ""
          THEN Put(r, hit) /\ hist' = Arrived(hit)
          ELSE Put(r, [q EXCEPT !.pc = "db_lookup"]) /\ hist' = hist
  /\ UNCHANGED <<now, cfg, apiKeys, orgs, users, team, cache, rate, touch>>

\* APIKeyRepository.GetByHash: WHERE key_hash = ? AND revoked_at IS NULL
GetByHash(h) ==
  IF apiKeys[h].present /\ apiKeys[h].revokedAt = 0
  THEN [found |-> TRUE, row |-> apiKeys[h]]
  ELSE [found |-> FALSE, row |-> apiKeys[h]]

\* the checks without the expiry test
KeyRejectedNoExpiry(row) == row.revokedAt # 0

\* the checks that follow a lookup that returned a row
KeyRejected(row) ==
  \/ row.revokedAt # 0
  \/ (row.expiresAt # 0 /\ row.expiresAt < now)

DbLookup(r) ==
  /\ req[r].pc = "db_lookup"
  /\ \E ok \in Call(req[r], "db") :
       LET q == [req[r] EXCEPT !.looked = TRUE]
           res == GetByHash(q.hash)
       IN IF ~ok
          THEN Put(r, Reject([q EXCEPT !.failed = @ \cup {"db"}], 500, "INTERNAL_ERROR"))
          ELSE IF ~res.found THEN Put(r, Reject(q, 401, "UNAUTHORIZED"))
          ELSE IF KeyRejected(res.row) THEN Put(r, Reject(q, 401, "UNAUTHORIZED"))
          ELSE Put(r, [q EXCEPT !.pc = "cache_set1", !.dbValid = Usable(apiKeys[q.hash]),
                                !.data = [org |-> res.row.org, tier |-> res.row.tier]])
  /\ UNCHANGED <<now, cfg, apiKeys, orgs, users, team, cache, rate, touch, hist>>

\* redisClient.Set(ctx, key, val, 5*time.Minute); its error is dropped
RedisSet(h, part, val, ok) ==
  IF ok THEN [cache EXCEPT ![h][part] = [val |-> val, exp |-> now + CacheTTL]]
  ELSE cache

CacheSet1(r) ==
  /\ req[r].pc = "cache_set1"
  /\ \E ok \in Call(req[r], "cache_set") :
       /\ cache' = RedisSet(req[r].hash, "valid", "valid", ok)
       /\ Put(r, [req[r] EXCEPT !.pc = "cache_set2", !.wrote = @ \/ ok])
  /\ UNCHANGED <<now, cfg, apiKeys, orgs, users, team, rate, touch, hist>>

CacheSet2(r) ==
  /\ req[r].pc = "cache_set2"
  /\ \E ok \in Call(req[r], "cache_set") :
       /\ cache' = RedisSet(req[r].hash, "tier", req[r].data.tier, ok)
       /\ Put(r, [req[r] EXCEPT !.pc = "cache_set3", !.wrote = @ \/ ok])
  /\ UNCHANGED <<now, cfg, apiKeys, orgs, users, team, rate, touch, hist>>

\* third write, c.Set of the principal, the last-used goroutine, c.Next()
CacheSet3(r) ==
  /\ req[r].pc = "cache_set3"
  /\ \E ok \in Call(req[r], "cache_set") :
       LET q == EnterLimit([req[r] EXCEPT !.wrote = @ \/ ok,
                                         !.keySet = TRUE, !.keyHash = req[r].hash,
                                         !.orgID = req[r].data.org,
                                         !.tier = req[r].data.tier])
       IN /\ cache' = RedisSet(req[r].hash, "org", req[r].data.org, ok)
          /\ Put(r, q)
          /\ hist' = Arrived(q)
  /\ touch' = touch \cup {req[r].hash}
  /\ UNCHANGED <<now, cfg, apiKeys, orgs, users, team, rate>>

\* a last-used update whose failure takes the key's cache entry with it
UpdateLastUsedDropsCache(h) ==
  /\ h \in touch
  /\ touch' = touch \ {h}
  /\ \E ok \in Outcomes("touch") :
       /\ apiKeys' = IF ok /\ apiKeys[h].present
                     THEN [apiKeys EXCEPT ![h].lastUsedAt = now] ELSE apiKeys
       /\ cache' = IF ok THEN cache
                   ELSE [cache EXCEPT ![h] = [p \in {"valid", "tier", "org"} |-> NoEntry]]
  /\ UNCHANGED <<now, cfg, orgs, users, team, rate, req, hist>>

\* the detached goroutine: APIKeyRepository.UpdateLastUsed, error dropped
UpdateLastUsed(h) ==
  /\ h \in touch
  /\ touch' = touch \ {h}
  /\ \E ok \in Outcomes("touch") :
       apiKeys' = IF ok /\ apiKeys[h].present
                  THEN [apiKeys EXCEPT ![h].lastUsedAt = now] ELSE apiKeys
  /\ UNCHANGED <<now, cfg, orgs, users, team, cache, rate, req, hist>>

\* APIKeyHandler.RevokeAPIKey -> APIKeyRepository.Revoke
RevokeAPIKey(h) ==
  /\ h \in cfg.revoke
  /\ apiKeys[h].present /\ apiKeys[h].revokedAt = 0
  /\ apiKeys' = [apiKeys EXCEPT ![h].revokedAt = now]
  /\ UNCHANGED <<now, cfg, orgs, users, team, cache, rate, req, touch, hist>>

\* ---------------------------------------------- CookieAuthMiddleware.Authenticate
\* authService.ValidateIDToken: the subject, an error, or a cancelled context
ValidateIDToken(r) ==
  /\ req[r].pc = "validate"
  /\ \E res \in IF req[r].cancelled THEN {"cancelled"}
                ELSE {"ok"} \cup (IF "idp" \in cfg.faults THEN {"error", "cancelled"} ELSE {}) :
       LET q == req[r]
       IN IF res = "cancelled"
          THEN Put(r, [q EXCEPT !.pc = "done", !.code = "ABORTED",
                                !.failed = @ \cup {"idp"}])
          ELSE IF res = "error"
          THEN Put(r, Reject([q EXCEPT !.failed = @ \cup {"idp"}], 401, "TOKEN_EXPIRED"))
          ELSE IF q.idtok = "bad" THEN Put(r, Reject(q, 401, "TOKEN_EXPIRED"))
          ELSE Put(r, [q EXCEPT !.pc = "user_lookup"])
  /\ UNCHANGED <<now, cfg, apiKeys, orgs, users, team, cache, rate, touch, hist>>

\* a resolver that turns away a subject without a local user record
UserNotFoundRejected(q) == Reject(q, 401, "UNAUTHORIZED")

\* storage.ErrNotFound from GetByIDPSub: empty user and organization, c.Next()
UserNotFound(q) == EnterLimit([q EXCEPT !.userID = "", !.orgID = ""])

\* userRepo.GetByIDPSub
GetByIDPSub(r) ==
  /\ req[r].pc = "user_lookup"
  /\ \E ok \in Call(req[r], "users") :
       LET q == req[r]
       IN IF ~ok
          THEN Put(r, Reject([q EXCEPT !.failed = @ \cup {"users"}], 500, "INTERNAL_ERROR"))
          ELSE IF ~users[q.idtok]
          THEN Put(r, UserNotFound(q))
          ELSE Put(r, [q EXCEPT !.pc = "member_lookup", !.userID = q.idtok])
  /\ UNCHANGED <<now, cfg, apiKeys, orgs, users, team, cache, rate, touch, hist>>

\* memberRepo.ListByUser, then c.Next()
ListByUser(r) ==
  /\ req[r].pc = "member_lookup"
  /\ \E ok \in Call(req[r], "members") :
       LET q == req[r]
           mine == {m \in members : m[1] = q.userID}
       IN IF ~ok
          THEN Put(r, EnterLimit([q EXCEPT !.orgID = "", !.failed = @ \cup {"members"}]))
          ELSE IF Cardinality(mine) = 1
          THEN Put(r, EnterLimit([q EXCEPT !.orgID = (CHOOSE m \in mine : TRUE)[2]]))
          ELSE Put(r, EnterLimit([q EXCEPT !.orgID = ""]))
  /\ UNCHANGED <<now, cfg, apiKeys, orgs, users, team, cache, rate, touch, hist>>

\* ------------------------------------------------- RateLimitMiddleware.Limit
\* a counter read that loses every second increment to a stale write
RateCountLossy(k) ==
  IF k \in DOMAIN rate THEN (IF rate[k].n % 2 = 0 THEN rate[k].n - 1 ELSE rate[k].n)
  ELSE 0

\* the value INCR adds one to, in the same round trip
RateCount(k) == IF k \in DOMAIN rate THEN rate[k].n ELSE 0

\* the over-limit test off by one: count >= limit
RateDecideOffByOne(q) ==
  LET g == [q EXCEPT !.rlh = <<q.limit, Max(0, q.limit - q.count),
                                (q.window + 1) * WindowSeconds>>]
  IN IF g.count >= g.limit THEN Reject(g, 429, "RATE_LIMIT_EXCEEDED")
     ELSE AfterLimit(g)

\* headers, then the over-limit test
RateDecide(q) ==
  LET g == [q EXCEPT !.rlh = <<q.limit, Max(0, q.limit - q.count),
                                (q.window + 1) * WindowSeconds>>]
  IN IF g.count > g.limit THEN Reject(g, 429, "RATE_LIMIT_EXCEEDED")
     ELSE AfterLimit(g)

\* a limiter that fails closed on a store error
RateIncrFailedClosed(q) ==
  Reject([q EXCEPT !.failed = @ \cup {"rate"}], 500, "INTERNAL_ERROR")

\* if err != nil { c.Next(); return }: fail open, no headers
RateIncrFailed(q) == AfterLimit([q EXCEPT !.failed = @ \cup {"rate"}])

\* redisClient.Incr(ctx, rateLimitKey)
RateIncr(r) ==
  /\ req[r].pc = "rl_incr"
  /\ \E ok \in Call(req[r], "rate") :
       LET q == req[r]
           k == RateKey(q)
           n == RateCount(k) + 1
       IN IF ~ok
          THEN /\ Put(r, RateIncrFailed(q))
               /\ rate' = rate
               /\ hist' = hist
          ELSE /\ rate' = (k :> [n |-> n, exp |-> IF k \in DOMAIN rate THEN rate[k].exp ELSE 0])
                          @@ rate
               /\ IF n = 1 THEN Put(r, [q EXCEPT !.pc = "rl_expire", !.count = n])
                                /\ hist' = hist
                  ELSE Put(r, RateDecide([q EXCEPT !.count = n]))
                       /\ hist' = Admitted(RateDecide([q EXCEPT !.count = n]))
  /\ UNCHANGED <<now, cfg, apiKeys, orgs, users, team, cache, touch>>

\* redisClient.Expire(ctx, rateLimitKey, 2*time.Minute); its error is dropped
RateExpire(r) ==
  /\ req[r].pc = "rl_expire"
  /\ \E ok \in Call(req[r], "rate") :
       LET k == RateKey(req[r])
       IN rate' = IF ok /\ k \in DOMAIN rate
                  THEN [rate EXCEPT ![k].exp = now + RateKeyTTL] ELSE rate
  /\ Put(r, RateDecide(req[r]))
  /\ hist' = Admitted(RateDecide(req[r]))
  /\ UNCHANGED <<now, cfg, apiKeys, orgs, users, team, cache, touch>>

\* -------------------------------------------------- UsageMiddleware.TrackUsage
MonthStart(t) == (t \div MonthSeconds) * MonthSeconds

\* OrganizationRepository.IncrementRequestCount: one atomic
\* UPDATE ... SET monthly_request_count = monthly_request_count + 1 RETURNING *
IncrementRequestCount(o) == [orgs EXCEPT ![o].count = @ + 1]

\* a reset that zeroes the counter and leaves the boundary where it was
ResetMonthlyUsageKeepBoundary(o) ==
  IF orgs[o].resetAt < now THEN [orgs EXCEPT ![o].count = 0] ELSE orgs

\* a reset that does not look at the stored boundary
ResetMonthlyUsageAlways(o) ==
  [orgs EXCEPT ![o].count = 0, ![o].resetAt = MonthStart(now) + MonthSeconds]

\* OrganizationRepository.ResetMonthlyUsage: zero the counter and move the
\* boundary to the start of next month, once per stale boundary
ResetMonthlyUsage(o) ==
  IF orgs[o].resetAt < now
  THEN [orgs EXCEPT ![o].count = 0, ![o].resetAt = MonthStart(now) + MonthSeconds]
  ELSE orgs

\* OrganizationRepository.Get: it copies id, name, slug, tier, the GitHub
\* fields and the timestamps; the usage fields keep Go's zero values
OrgGet(o) == [nil |-> FALSE, tier |-> orgs[o].tier, count |-> 0,
              limit |-> 0, resetAt |-> 0]

\* a request counted twice
CountRequestTwice(o) == [orgs EXCEPT ![o].count = @ + 2]

\* the store call TrackUsage makes for every metered request
CountRequest(o) == IncrementRequestCount(o)

\* time.Now().UTC().After(org.UsageResetAt)
ResetDue(org) == now > org.resetAt

\* the threshold test with a strict comparison
UsagePercentAbove(org, p) ==
  IF org.limit = 0 THEN org.count > 0
  ELSE LET k == org.limit \div 100
           d == org.count - p * k
       IN IF d < 0 THEN FALSE ELSE IF d >= p THEN TRUE
          ELSE d * 100 > p * (org.limit % 100)

\* float64(count) / float64(limit) * 100 >= p, that is
\* count * 100 >= p * limit, evaluated without leaving 32 bits: with
\* limit = 100 k + m the test is 100 (count - p k) >= p m.  A limit of 0 gives
\* +Inf (count > 0) or NaN (count = 0, every comparison false).
UsagePercentAtLeast(org, p) ==
  IF org.limit = 0 THEN org.count > 0
  ELSE LET k == org.limit \div 100
           d == org.count - p * k
       IN IF d < 0 THEN FALSE ELSE IF d >= p THEN TRUE
          ELSE d * 100 >= p * (org.limit % 100)

\* a hard stop that begins above 100%
HardStopAbove(tier, org) == tier = "starter" /\ org.count > org.limit

\* Starter tier: hard stop at 100%
HardStop(tier, org) == tier = "starter" /\ UsagePercentAtLeast(org, 100)

\* a throttle that includes the top tier
ThrottledAllPaid(tier, org) ==
  tier \in {"team", "scale", "enterprise"} /\ UsagePercentAtLeast(org, 120)

\* Team/Scale tiers: throttle at 120%
Throttled(tier, org) ==
  tier \in {"team", "scale"} /\ UsagePercentAtLeast(org, 120)

\* usage headers, then the enforcement by tier
UsageDecide(q, org) ==
  LET g == [q EXCEPT !.org = org, !.mh = <<org.limit, org.count, org.resetAt>>]
      tier == IF q.tier = "" THEN org.tier ELSE q.tier
  IN IF HardStop(tier, org)
     THEN Reject(g, 402, "USAGE_LIMIT_EXCEEDED")
     ELSE IF Throttled(tier, org)
     THEN Reject(g, 429, "USAGE_LIMIT_THROTTLED")
     ELSE RunHandler(g)

\* a meter that decides first and stores the increment only for a request it
\* lets through
UsageIncrAdmittedOnly(r) ==
  /\ req[r].pc = "us_incr"
  /\ \E ok \in Call(req[r], "usage") :
       LET q == req[r]
           o == q.orgID
           after == CountRequest(o)
           org == [nil |-> FALSE, tier |-> after[o].tier, count |-> after[o].count,
                   limit |-> after[o].limit, resetAt |-> after[o].resetAt]
           blocked == UsageDecide(q, org).pc = "done" /\ ~UsageDecide(q, org).handler
       IN IF ~ok
          THEN /\ Put(r, RunHandler([q EXCEPT !.failed = @ \cup {"usage_incr"}]))
               /\ UNCHANGED <<orgs, hist>>
          ELSE /\ orgs' = IF blocked THEN orgs ELSE after
               /\ hist' = IF blocked THEN hist ELSE [hist EXCEPT !.incs[o] = @ + 1]
               /\ IF ResetDue(org) THEN Put(r, [q EXCEPT !.pc = "us_reset", !.org = org])
                  ELSE Put(r, UsageDecide(q, org))
  /\ UNCHANGED <<now, cfg, apiKeys, users, team, cache, rate, touch>>

UsageIncr(r) ==
  /\ req[r].pc = "us_incr"
  /\ \E ok \in Call(req[r], "usage") :
       LET q == req[r]
           o == q.orgID
           after == CountRequest(o)
           org == [nil |-> FALSE, tier |-> after[o].tier, count |-> after[o].count,
                   limit |-> after[o].limit, resetAt |-> after[o].resetAt]
       IN IF ~ok
          THEN /\ Put(r, RunHandler([q EXCEPT !.failed = @ \cup {"usage_incr"}]))
               /\ UNCHANGED <<orgs, hist>>
          ELSE /\ orgs' = after
               /\ hist' = [hist EXCEPT !.incs[o] = @ + 1]
               /\ IF ResetDue(org) THEN Put(r, [q EXCEPT !.pc = "us_reset", !.org = org])
                  ELSE Put(r, UsageDecide(q, org))
  /\ UNCHANGED <<now, cfg, apiKeys, users, team, cache, rate, touch>>

UsageReset(r) ==
  /\ req[r].pc = "us_reset"
  /\ \E ok \in Call(req[r], "usage") :
       LET q == req[r]
           o == q.orgID
           after == ResetMonthlyUsage(o)
       IN IF ~ok
          THEN /\ Put(r, UsageDecide([q EXCEPT !.failed = @ \cup {"usage_reset"}], q.org))
               /\ UNCHANGED <<orgs, hist>>
          ELSE /\ orgs' = after
               /\ hist' = [hist EXCEPT
                             !.resetCalls[o] = @ + 1,
                             !.incs[o] = IF after = orgs THEN @ ELSE 0,
                             !.base[o] = IF after = orgs THEN @ ELSE 0,
                             !.resetLog[o] = IF after = orgs THEN @
                                             ELSE Append(@, after[o].resetAt)]
               /\ Put(r, [q EXCEPT !.pc = "us_get"])
  /\ UNCHANGED <<now, cfg, apiKeys, users, team, cache, rate, touch>>

\* org, _ = m.orgRepo.Get(ctx, orgID): on an error org is nil, and the next
\* line dereferences it; gin's Recovery answers 500
UsageGet(r) ==
  /\ req[r].pc = "us_get"
  /\ \E ok \in Call(req[r], "usage") :
       LET q == req[r]
       IN IF ~ok
          THEN Put(r, Reject([q EXCEPT !.org = NoOrg, !.failed = @ \cup {"usage_get"}],
                             500, "PANIC"))
          ELSE Put(r, UsageDecide(q, OrgGet(q.orgID)))
  /\ UNCHANGED <<now, cfg, apiKeys, orgs, users, team, cache, rate, touch, hist>>

\* the client goes away, or a deadline passes, while the request waits on a
\* store: the request's context is done from here on
Cancel(r) ==
  /\ cfg.cancel
  /\ req[r].pc \notin {"idle", "done"}
  /\ ~req[r].cancelled
  /\ Put(r, [req[r] EXCEPT !.cancelled = TRUE])
  /\ UNCHANGED <<now, cfg, apiKeys, orgs, users, team, cache, rate, touch, hist>>

\* the goroutine ends; its slot serves the next request
Finish(r) ==
  /\ req[r].pc = "done"
  /\ Put(r, IdleReq)
  /\ UNCHANGED <<now, cfg, apiKeys, orgs, users, team, cache, rate, touch, hist>>

\* ------------------------------------------------------- team endpoints
\* everything the team endpoints leave alone
rest == <<now, cfg, apiKeys, orgs, cache, rate, req, touch>>

PutCall(c, v) == calls' = [calls EXCEPT ![c] = v]
EndCall(q, st, code) == [q EXCEPT !.pc = "done", !.status = st, !.code = code]
ActiveOf(u) == {m \in members : m[1] = u}

\* a new handler goroutine may start
CallSlot(c) == calls[c].pc = "idle" /\ hist.started < cfg.maxStarts
Started == hist' = [hist EXCEPT !.started = @ + 1]

\* an insert checked only against UNIQUE(organization_id, user_id)
CanCreateNoUserIndex(u, o) == <<u, o>> \notin members \cup membersDeleted

\* memberRepo.Create succeeds: the insert passes UNIQUE(organization_id,
\* user_id) over all rows and the unique index on user_id over active rows
CanCreate(u, o) ==
  /\ <<u, o>> \notin members \cup membersDeleted
  /\ ActiveOf(u) = {}

\* inviteRepo.Accept / inviteRepo.Revoke update a row only WHERE
\* accepted_at IS NULL AND revoked_at IS NULL
Pending(inv) == ~inv.accepted /\ ~inv.revoked

\* AcceptInvite up to and including inviteRepo.GetByToken and its checks
AcceptInvite(c) ==
  /\ CallSlot(c)
  /\ \E u \in Subs, i \in InviteIds :
       /\ users[u]
       /\ LET inv == invites[i]
              q == [IdleCall EXCEPT !.op = "accept", !.user = u, !.invite = i,
                                    !.org = inv.org]
          IN PutCall(c, IF inv.accepted THEN EndCall(q, 400, "INVITE_ALREADY_ACCEPTED")
                        ELSE IF inv.revoked THEN EndCall(q, 400, "INVITE_REVOKED")
                        ELSE [q EXCEPT !.pc = "acc_list"])
  /\ Started
  /\ UNCHANGED <<rest, users, members, membersDeleted, orgSlugs, invites>>

\* memberRepo.ListByUser: a user with a membership is turned away
AcceptInviteList(c) ==
  /\ calls[c].pc = "acc_list"
  /\ \E ok \in Outcomes("members") :
       LET q == calls[c]
       IN PutCall(c, IF ~ok THEN EndCall(q, 500, "INTERNAL_ERROR")
                     ELSE IF ActiveOf(q.user) # {}
                     THEN EndCall(q, 409, "ALREADY_HAS_ORGANIZATION")
                     ELSE [q EXCEPT !.pc = "acc_create"])
  /\ UNCHANGED <<rest, users, members, membersDeleted, orgSlugs, invites, hist>>

\* memberRepo.Create
AcceptInviteCreate(c) ==
  /\ calls[c].pc = "acc_create"
  /\ LET q == calls[c]
     IN IF CanCreate(q.user, q.org)
        THEN /\ members' = members \cup {<<q.user, q.org>>}
             /\ invites' = [invites EXCEPT ![q.invite].made = @ \cup {q.user}]
             /\ PutCall(c, [q EXCEPT !.pc = "acc_accept"])
        ELSE /\ PutCall(c, EndCall(q, 500, "INTERNAL_ERROR"))
             /\ UNCHANGED <<members, invites>>
  /\ UNCHANGED <<rest, users, membersDeleted, orgSlugs, hist>>

\* inviteRepo.Accept
AcceptInviteAccept(c) ==
  /\ calls[c].pc = "acc_accept"
  /\ LET q == calls[c]
     IN IF Pending(invites[q.invite])
        THEN /\ invites' = [invites EXCEPT ![q.invite].accepted = TRUE,
                                           ![q.invite].acceptedBy = q.user]
             /\ PutCall(c, EndCall(q, 200, "OK"))
        ELSE /\ PutCall(c, EndCall(q, 500, "INTERNAL_ERROR"))
             /\ UNCHANGED invites
  /\ UNCHANGED <<rest, users, members, membersDeleted, orgSlugs, hist>>

\* RevokeInvite: one inviteRepo.Revoke statement; a row that is not pending
\* is left alone and the handler answers 404
RevokeInvite(i) ==
  /\ Pending(invites[i])
  /\ invites' = [invites EXCEPT ![i].revoked = TRUE]
  /\ UNCHANGED <<rest, users, members, membersDeleted, orgSlugs, calls, hist>>

\* RemoveOrganizationMember up to and including memberRepo.GetByUserAndOrg
RemoveOrganizationMember(c) ==
  /\ CallSlot(c)
  /\ \E u \in Subs, o \in Slugs :
       LET q == [IdleCall EXCEPT !.op = "remove", !.user = u, !.org = o]
       IN PutCall(c, IF <<u, o>> \in members THEN [q EXCEPT !.pc = "rm_delete"]
                     ELSE EndCall(q, 404, "NOT_FOUND"))
  /\ Started
  /\ UNCHANGED <<rest, users, members, membersDeleted, orgSlugs, invites>>

\* memberRepo.Delete: SET deleted_at WHERE id = ? AND deleted_at IS NULL
RemoveOrganizationMemberDelete(c) ==
  /\ calls[c].pc = "rm_delete"
  /\ LET q == calls[c]
         row == <<q.user, q.org>>
     IN IF row \in members
        THEN /\ members' = members \ {row}
             /\ membersDeleted' = membersDeleted \cup {row}
             /\ PutCall(c, EndCall(q, 200, "OK"))
        ELSE /\ PutCall(c, EndCall(q, 500, "INTERNAL_ERROR"))
             /\ UNCHANGED <<members, membersDeleted>>
  /\ UNCHANGED <<rest, users, orgSlugs, invites, hist>>

\* SetupOrganization up to and including memberRepo.ListByUser; an error of
\* the listing does not stop the handler
SetupOrganization(c) ==
  /\ CallSlot(c)
  /\ \E u \in Subs, o \in Slugs, ok \in Outcomes("members") :
       /\ users[u]
       /\ LET q == [IdleCall EXCEPT !.op = "setup", !.user = u, !.org = o]
          IN PutCall(c, IF ok /\ ActiveOf(u) # {}
                        THEN EndCall(q, 400, "ALREADY_HAS_ORGANIZATION")
                        ELSE [q EXCEPT !.pc = "so_org"])
  /\ Started
  /\ UNCHANGED <<rest, users, members, membersDeleted, orgSlugs, invites>>

\* orgRepo.Create
SetupOrganizationOrg(c) ==
  /\ calls[c].pc = "so_org"
  /\ LET q == calls[c]
     IN IF q.org \in orgSlugs
        THEN /\ PutCall(c, EndCall(q, 409, "SLUG_EXISTS"))
             /\ UNCHANGED orgSlugs
        ELSE /\ orgSlugs' = orgSlugs \cup {q.org}
             /\ PutCall(c, [q EXCEPT !.pc = "so_member"])
  /\ UNCHANGED <<rest, users, members, membersDeleted, invites, hist>>

\* memberRepo.Create
SetupOrganizationMember(c) ==
  /\ calls[c].pc = "so_member"
  /\ LET q == calls[c]
     IN IF CanCreate(q.user, q.org)
        THEN /\ members' = members \cup {<<q.user, q.org>>}
             /\ PutCall(c, EndCall(q, 200, "OK"))
        ELSE /\ PutCall(c, EndCall(q, 500, "INTERNAL_ERROR"))
             /\ UNCHANGED members
  /\ UNCHANGED <<rest, users, membersDeleted, orgSlugs, invites, hist>>

\* SignUp up to the identity provider: the invite's checks, or orgRepo.Create,
\* or neither
SignUp(c) ==
  /\ CallSlot(c)
  /\ \E u \in Subs :
       LET q == [IdleCall EXCEPT !.op = "signup", !.user = u]
       IN \/ \E i \in InviteIds :
               LET inv == invites[i]
               IN /\ PutCall(c, IF inv.accepted THEN EndCall(q, 400, "INVITE_ALREADY_USED")
                                ELSE IF inv.revoked THEN EndCall(q, 400, "INVITE_REVOKED")
                                ELSE IF inv.email # u THEN EndCall(q, 400, "EMAIL_MISMATCH")
                                ELSE [q EXCEPT !.pc = "su_user", !.invite = i,
                                               !.org = inv.org])
                  /\ UNCHANGED orgSlugs
          \/ \E o \in Slugs :
               IF o \in orgSlugs
               THEN /\ PutCall(c, EndCall(q, 409, "SLUG_EXISTS"))
                    /\ UNCHANGED orgSlugs
               ELSE /\ orgSlugs' = orgSlugs \cup {o}
                    /\ PutCall(c, [q EXCEPT !.pc = "su_user", !.org = o])
          \/ /\ PutCall(c, [q EXCEPT !.pc = "su_user"])
             /\ UNCHANGED orgSlugs
  /\ Started
  /\ UNCHANGED <<rest, users, members, membersDeleted, invites>>

\* authService.SignUp, refused for a known address, then userRepo.Create
SignUpUser(c) ==
  /\ calls[c].pc = "su_user"
  /\ LET q == calls[c]
     IN IF users[q.user]
        THEN /\ PutCall(c, EndCall(q, 400, "SIGNUP_FAILED"))
             /\ UNCHANGED users
        ELSE /\ users' = [users EXCEPT ![q.user] = TRUE]
             /\ PutCall(c, IF q.org = "" THEN EndCall(q, 201, "OK")
                           ELSE [q EXCEPT !.pc = "su_member"])
  /\ UNCHANGED <<rest, members, membersDeleted, orgSlugs, invites, hist>>

\* memberRepo.Create, its error logged and dropped
SignUpMember(c) ==
  /\ calls[c].pc = "su_member"
  /\ LET q == calls[c]
         made == CanCreate(q.user, q.org)
     IN /\ members' = IF made THEN members \cup {<<q.user, q.org>>} ELSE members
        /\ invites' = IF made /\ q.invite # ""
                      THEN [invites EXCEPT ![q.invite].made = @ \cup {q.user}]
                      ELSE invites
        /\ PutCall(c, IF q.invite = "" THEN EndCall(q, 201, "OK")
                      ELSE [q EXCEPT !.pc = "su_accept"])
  /\ UNCHANGED <<rest, users, membersDeleted, orgSlugs, hist>>

\* inviteRepo.Accept, its error logged and dropped
SignUpAccept(c) ==
  /\ calls[c].pc = "su_accept"
  /\ LET q == calls[c]
     IN /\ invites' = IF Pending(invites[q.invite])
                      THEN [invites EXCEPT ![q.invite].accepted = TRUE,
                                           ![q.invite].acceptedBy = q.user]
                      ELSE invites
        /\ PutCall(c, EndCall(q, 201, "OK"))
  /\ UNCHANGED <<rest, users, members, membersDeleted, orgSlugs, hist>>

\* the handler returns; its goroutine serves the next call
FinishCall(c) ==
  /\ calls[c].pc = "done"
  /\ PutCall(c, IdleCall)
  /\ UNCHANGED <<rest, users, members, membersDeleted, orgSlugs, invites, hist>>

Next ==
  \/ Tick
  \/ \E r \in Reqs : Start(r)
  \/ \E r \in Reqs : CacheGet1(r)
  \/ \E r \in Reqs : CacheGet2(r)
  \/ \E r \in Reqs : CacheGet3(r)
  \/ \E r \in Reqs : DbLookup(r)
  \/ \E r \in Reqs : CacheSet1(r)
  \/ \E r \in Reqs : CacheSet2(r)
  \/ \E r \in Reqs : CacheSet3(r)
  \/ \E r \in Reqs : ValidateIDToken(r)
  \/ \E r \in Reqs : GetByIDPSub(r)
  \/ \E r \in Reqs : ListByUser(r)
  \/ \E r \in Reqs : RateIncr(r)
  \/ \E r \in Reqs : RateExpire(r)
  \/ \E r \in Reqs : Finish(r)
  \/ \E h \in Hashes : UpdateLastUsed(h)
  \/ \E h \in Hashes : RevokeAPIKey(h)

Spec == Init /\ [][Next]_vars

\* ---------------------------------------------------------------------------
\* API-key path alone: concurrent requests with one key, revocation, a horizon
\* longer than the cache TTL
InitKey ==
  /\ InitStores({"team"}, {0, 2 * TickSeconds})
  /\ cfg = [faults |-> {}, slots |-> Reqs, maxStarts |-> KeyStarts,
            maxNow |-> KeyTicks * TickSeconds, cookieAuth |-> TRUE, cancel |-> FALSE, usage |-> FALSE,
            hdrs |-> {"s1"}, access |-> {FALSE}, idtoks |-> {"none"},
            metered |-> {FALSE}, revoke |-> {"h1"}]

NextKey ==
  \/ Tick
  \/ \E r \in Reqs : Start(r)
  \/ \E r \in Reqs : CacheGet1(r)
  \/ \E r \in Reqs : CacheGet2(r)
  \/ \E r \in Reqs : CacheGet3(r)
  \/ \E r \in Reqs : DbLookup(r)
  \/ \E r \in Reqs : CacheSet1(r)
  \/ \E r \in Reqs : CacheSet2(r)
  \/ \E r \in Reqs : CacheSet3(r)
  \/ \E r \in Reqs : RateIncr(r)
  \/ \E r \in Reqs : RateExpire(r)
  \/ \E r \in Reqs : Finish(r)
  \/ \E h \in Hashes : UpdateLastUsed(h)
  \/ \E h \in Hashes : RevokeAPIKey(h)

SpecKey == InitKey /\ [][NextKey]_vars

\* ---------------------------------------------------------------------------
\* Usage meter behind the limiter on metered routes: concurrent session
\* requests of one organization across billing-period boundaries, with store
\* faults
InitUsage ==
  /\ InitStores({"team"}, {0})
  /\ cfg = [faults |-> {"usage"}, slots |-> Reqs, maxStarts |-> UsageStarts,
            maxNow |-> UsageTicks * TickSeconds, cookieAuth |-> TRUE, cancel |-> FALSE, usage |-> TRUE,
            hdrs |-> {"none"}, access |-> {TRUE}, idtoks |-> {"u1"},
            metered |-> {TRUE}, revoke |-> {}]

NextUsage ==
  \/ Tick
  \/ \E r \in Reqs : Start(r)
  \/ \E r \in Reqs : ValidateIDToken(r)
  \/ \E r \in Reqs : GetByIDPSub(r)
  \/ \E r \in Reqs : ListByUser(r)
  \/ \E r \in Reqs : UsageIncr(r)
  \/ \E r \in Reqs : UsageReset(r)
  \/ \E r \in Reqs : UsageGet(r)
  \/ \E r \in Reqs : Finish(r)

SpecUsage == InitUsage /\ [][NextUsage]_vars

\* ---------------------------------------------------------------------------
\* Usage meter behind the limiter on metered routes: requests of one
\* organization, by API key and by session, handled concurrently inside one
\* billing period with all stores up
InitMeter ==
  /\ InitStores({"team"}, {0})
  /\ cfg = [faults |-> {}, slots |-> Reqs, maxStarts |-> MeterStarts,
            maxNow |-> TickSeconds, cookieAuth |-> TRUE, cancel |-> FALSE, usage |-> TRUE,
            hdrs |-> {"none", "s1"}, access |-> {TRUE}, idtoks |-> {"u1", "u3"},
            metered |-> {TRUE}, revoke |-> {}]

NextMeter ==
  \/ \E r \in Reqs : Start(r)
  \/ \E r \in Reqs : CacheGet1(r)
  \/ \E r \in Reqs : CacheGet2(r)
  \/ \E r \in Reqs : CacheGet3(r)
  \/ \E r \in Reqs : DbLookup(r)
  \/ \E r \in Reqs : CacheSet1(r)
  \/ \E r \in Reqs : CacheSet2(r)
  \/ \E r \in Reqs : CacheSet3(r)
  \/ \E r \in Reqs : ValidateIDToken(r)
  \/ \E r \in Reqs : GetByIDPSub(r)
  \/ \E r \in Reqs : ListByUser(r)
  \/ \E r \in Reqs : RateIncr(r)
  \/ \E r \in Reqs : RateExpire(r)
  \/ \E r \in Reqs : UsageIncr(r)
  \/ \E r \in Reqs : Finish(r)
  \/ \E h \in Hashes : UpdateLastUsed(h)

SpecMeter == InitMeter /\ [][NextMeter]_vars

\* ---------------------------------------------------------------------------
\* Usage meter behind the limiter on metered routes: organizations of every
\* tier with a stored count next to an enforcement threshold, inside one
\* billing period
InitTier ==
  /\ InitStoresAt(Tiers, {0}, "edge")
  /\ cfg = [faults |-> {"usage"}, slots |-> Reqs, maxStarts |-> TierStarts,
            maxNow |-> TickSeconds, cookieAuth |-> TRUE, cancel |-> FALSE,
            usage |-> TRUE,
            hdrs |-> {"none", "s1"}, access |-> {TRUE}, idtoks |-> {"u1"},
            metered |-> {TRUE}, revoke |-> {}]

SpecTier == InitTier /\ [][NextMeter]_vars

\* ---------------------------------------------------------------------------
\* API-key path with an unreliable cache, key store and last-used update
InitCache ==
  /\ InitStores({"team"}, {0})
  /\ cfg = [faults |-> {"cache_get", "cache_set", "db", "touch"}, slots |-> Reqs,
            maxStarts |-> CacheStarts,
            maxNow |-> TickSeconds, cookieAuth |-> TRUE, cancel |-> FALSE,
            usage |-> FALSE,
            hdrs |-> {"s1", "s3"}, access |-> {FALSE}, idtoks |-> {"none"},
            metered |-> {FALSE}, revoke |-> {"h1"}]

NextCache ==
  \/ \E r \in Reqs : Start(r)
  \/ \E r \in Reqs : CacheGet1(r)
  \/ \E r \in Reqs : CacheGet2(r)
  \/ \E r \in Reqs : CacheGet3(r)
  \/ \E r \in Reqs : DbLookup(r)
  \/ \E r \in Reqs : CacheSet1(r)
  \/ \E r \in Reqs : CacheSet2(r)
  \/ \E r \in Reqs : CacheSet3(r)
  \/ \E r \in Reqs : RateIncr(r)
  \/ \E r \in Reqs : RateExpire(r)
  \/ \E r \in Reqs : Finish(r)
  \/ \E h \in Hashes : UpdateLastUsed(h)
  \/ \E h \in Hashes : RevokeAPIKey(h)

SpecCache == InitCache /\ [][NextCache]_vars

\* ---------------------------------------------------------------------------
\* The server as wired, with requests whose context ends while they wait
InitCancel ==
  /\ InitStores({"team"}, {0})
  /\ cfg = [faults |-> {}, slots |-> Reqs, maxStarts |-> CancelStarts,
            maxNow |-> TickSeconds, cookieAuth |-> TRUE, cancel |-> TRUE,
            usage |-> FALSE,
            hdrs |-> {"none", "s1"}, access |-> {TRUE}, idtoks |-> {"u1"},
            metered |-> {FALSE}, revoke |-> {}]

NextCancel ==
  \/ \E r \in Reqs : Start(r)
  \/ \E r \in Reqs : Cancel(r)
  \/ \E r \in Reqs : CacheGet1(r)
  \/ \E r \in Reqs : CacheGet2(r)
  \/ \E r \in Reqs : CacheGet3(r)
  \/ \E r \in Reqs : DbLookup(r)
  \/ \E r \in Reqs : CacheSet1(r)
  \/ \E r \in Reqs : CacheSet2(r)
  \/ \E r \in Reqs : CacheSet3(r)
  \/ \E r \in Reqs : ValidateIDToken(r)
  \/ \E r \in Reqs : GetByIDPSub(r)
  \/ \E r \in Reqs : ListByUser(r)
  \/ \E r \in Reqs : RateIncr(r)
  \/ \E r \in Reqs : RateExpire(r)
  \/ \E r \in Reqs : Finish(r)
  \/ \E h \in Hashes : UpdateLastUsed(h)

SpecCancel == InitCancel /\ [][NextCancel]_vars

\* ---------------------------------------------------------------------------
\* One client issuing requests one after another with one key, all stores up
InitSeq ==
  /\ InitStores({"starter", "team"}, {0})
  /\ cfg = [faults |-> {}, slots |-> {1}, maxStarts |-> SeqStarts,
            maxNow |-> TickSeconds, cookieAuth |-> TRUE, cancel |-> FALSE, usage |-> FALSE,
            hdrs |-> {"s1"}, access |-> {FALSE}, idtoks |-> {"none"},
            metered |-> {FALSE}, revoke |-> {}]

NextSeq ==
  \/ \E r \in Reqs : Start(r)
  \/ \E r \in Reqs : CacheGet1(r)
  \/ \E r \in Reqs : CacheGet2(r)
  \/ \E r \in Reqs : CacheGet3(r)
  \/ \E r \in Reqs : DbLookup(r)
  \/ \E r \in Reqs : CacheSet1(r)
  \/ \E r \in Reqs : CacheSet2(r)
  \/ \E r \in Reqs : CacheSet3(r)
  \/ \E r \in Reqs : RateIncr(r)
  \/ \E r \in Reqs : RateExpire(r)
  \/ \E r \in Reqs : Finish(r)
  \/ \E h \in Hashes : UpdateLastUsed(h)

SpecSeq == InitSeq /\ [][NextSeq]_vars

\* ---------------------------------------------------------------------------
\* Two keys of different organizations and a session user, usage gate
\* installed, all stores up
InitIso ==
  /\ InitStores({"team"}, {0})
  /\ cfg = [faults |-> {}, slots |-> Reqs, maxStarts |-> IsoStarts,
            maxNow |-> TickSeconds, cookieAuth |-> TRUE, cancel |-> FALSE, usage |-> TRUE,
            hdrs |-> {"none", "s1", "s2"}, access |-> {TRUE}, idtoks |-> {"u1"},
            metered |-> {TRUE}, revoke |-> {}]

SpecIso == InitIso /\ [][NextMeter]_vars

\* ---------------------------------------------------------------------------
\* Two clients of one key sending more requests than the limit within one
\* window, all stores up
InitBurst ==
  /\ InitStores({"team"}, {0})
  /\ cfg = [faults |-> {}, slots |-> Reqs, maxStarts |-> BurstStarts,
            maxNow |-> TickSeconds, cookieAuth |-> TRUE, cancel |-> FALSE, usage |-> FALSE,
            hdrs |-> {"s1"}, access |-> {FALSE}, idtoks |-> {"none"},
            metered |-> {FALSE}, revoke |-> {}]

SpecBurst == InitBurst /\ [][NextSeq]_vars

\* ---------------------------------------------------------------------------
\* The team endpoints: invite acceptance and revocation, sign-up,
\* organization setup and member removal, two handlers at a time
InitTeam ==
  /\ InitStores({"team"}, {0})
  /\ cfg = [faults |-> {"members"}, slots |-> {},
            maxStarts |-> TeamStarts,
            maxNow |-> 0, cookieAuth |-> TRUE, cancel |-> FALSE,
            usage |-> FALSE,
            hdrs |-> {}, access |-> {}, idtoks |-> {},
            metered |-> {}, revoke |-> {}]

NextTeam ==
  \/ \E c \in Calls : AcceptInvite(c)
  \/ \E c \in Calls : AcceptInviteList(c)
  \/ \E c \in Calls : AcceptInviteCreate(c)
  \/ \E c \in Calls : AcceptInviteAccept(c)
  \/ \E i \in InviteIds : RevokeInvite(i)
  \/ \E c \in Calls : RemoveOrganizationMember(c)
  \/ \E c \in Calls : RemoveOrganizationMemberDelete(c)
  \/ \E c \in Calls : SetupOrganization(c)
  \/ \E c \in Calls : SetupOrganizationOrg(c)
  \/ \E c \in Calls : SetupOrganizationMember(c)
  \/ \E c \in Calls : SignUp(c)
  \/ \E c \in Calls : SignUpUser(c)
  \/ \E c \in Calls : SignUpMember(c)
  \/ \E c \in Calls : SignUpAccept(c)
  \/ \E c \in Calls : FinishCall(c)

SpecTeam == InitTeam /\ [][NextTeam]_vars

\* ===========================================================================
\* Properties
\* ===========================================================================
Range(f) == {f[i] : i \in DOMAIN f}
UsageFaults == {"usage_incr", "usage_reset", "usage_get"}

C2_SequentialLimit ==
  \A r \in Reqs :
    LET q == req[r]
        k == Arrivals(RateKey(q))
        L == getLimitForTier(q.tier)
    IN q.pc = "done" /\ q.keySet =>
         /\ q.handler <=> k <= L
         /\ q.rlh = <<L, IF L - k > 0 THEN L - k ELSE 0, (q.window + 1) * WindowSeconds>>
         /\ k > L => q.status = 429 /\ q.code = "RATE_LIMIT_EXCEEDED" /\ q.rlh[2] = 0

\* request L+1 of a window has been answered
C2_Witness ==
  \E r \in Reqs :
    /\ req[r].pc = "done" /\ req[r].keySet
    /\ Arrivals(RateKey(req[r])) = getLimitForTier(req[r].tier) + 1
    /\ req[r].status = 429

C4_RevokedRejectedAfterTTL ==
  \A r \in Reqs : req[r].pc = "done" /\ req[r].late => req[r].status = 401

\* C5: the gates run in the order credential resolution, rate limit, usage
\* (metered routes), each at most once; the handler runs only after all of
\* them, and never for a request a gate answered with a rejection.
C5_GateOrder ==
  \A r \in Reqs :
    LET q == req[r]
    IN /\ q.gates \in {<<>>, <<"auth">>, <<"auth", "rate">>, <<"auth", "rate", "usage">>}
       /\ q.handler => q.gates = IF q.metered THEN <<"auth", "rate", "usage">>
                                 ELSE <<"auth", "rate">>
       /\ q.handler => q.status = 200
       /\ q.pc = "done" /\ q.status \in {401, 402, 429, 500} => ~q.handler

\* C6: a request whose key is absent from the store or past its expiry when
\* the request starts never gets a principal, is answered 401 and reaches
\* neither the limiter nor a handler.
C6_UnusableKeyRejected ==
  \A r \in Reqs :
    req[r].unusable =>
      /\ ~req[r].keySet
      /\ "rate" \notin Range(req[r].gates)
      /\ req[r].pc = "done" => req[r].status = 401 /\ ~req[r].handler

\* C7: a request writes a cache entry only after its own authoritative lookup
\* found the key usable, and a request the resolver answered 401 or 500 wrote
\* none.
C7_CacheWriteAfterValidLookup ==
  \A r \in Reqs :
    /\ req[r].wrote => req[r].dbValid
    /\ req[r].pc = "done" /\ req[r].gates = <<"auth">> => ~req[r].wrote

\* a request has written the cache after looking up a key with an expiry
C7_Witness ==
  \E r \in Reqs :
    /\ req[r].wrote /\ req[r].pc = "done"
    /\ apiKeys[req[r].hash].expiresAt # 0

\* C8: a request whose rate-limit increment failed goes on to the next stage
\* (usage gate on a metered route, else the handler), with no rate-limit
\* headers and no rejection from the limiter.
C8_RateLimiterFailOpen ==
  \A r \in Reqs :
    LET q == req[r]
    IN "rate" \in q.failed =>
         /\ q.rlh = <<>>
         /\ q.code # "RATE_LIMIT_EXCEEDED"
         /\ cfg.usage /\ q.metered => "usage" \in Range(q.gates)
         /\ ~(cfg.usage /\ q.metered) => q.handler /\ q.status = 200

\* a request was served although its rate-limit increment failed
C8_Witness ==
  \E r \in Reqs : "rate" \in req[r].failed /\ req[r].handler

\* C9: a request for which a store call of TrackUsage failed reaches its
\* handler.
C9_UsageFailOpen ==
  \A r \in Reqs :
    req[r].pc = "done" /\ req[r].failed \cap UsageFaults # {} => req[r].handler

\* C10: a request whose credential resolution met a store failure (key
\* lookup, identity provider, user lookup, membership lookup) does not reach
\* a handler.
C10_ResolverFailClosed ==
  \A r \in Reqs :
    req[r].failed \cap {"db", "users", "members"} # {} => ~req[r].handler

\* C11: a request whose context ended while a gate was waiting on its store
\* is aborted: no later gate and no handler runs for it.
C11_CancelAborts ==
  \A r \in Reqs : req[r].cancelled /\ req[r].pc = "done" => ~req[r].handler

TierOf(q) == orgs[q.orgID].tier

SessionSteps == {"validate", "user_lookup", "member_lookup"}
KeySteps == {"cache_get1", "cache_get2", "cache_get3", "db_lookup",
             "cache_set1", "cache_set2", "cache_set3", "rl_incr", "rl_expire"}

\* C16: a request with an Authorization header is decided by the API-key
\* path alone, cookies or not; a request with only the session cookie is
\* decided by the session path; a request with neither is answered 401
\* UNAUTHORIZED and no handler runs.
C16_StrategySelection ==
  \A r \in Reqs :
    LET q == req[r]
        header == q.hdr \notin {"none", "blank"}
    IN q.pc # "idle" =>
         /\ header => /\ q.pc \notin SessionSteps
                      /\ q.userID = "" /\ q.code # "TOKEN_EXPIRED"
                      /\ q.handler => q.keySet
         /\ ~header /\ q.access => /\ q.pc \notin KeySteps
                                   /\ ~q.keySet
                                   /\ q.idtok \in {"u1", "u2"} /\ q.handler
                                        => q.userID = q.idtok
         /\ ~header /\ ~q.access => /\ q.pc = "done" /\ ~q.handler
                                    /\ q.status = 401 /\ q.code = "UNAUTHORIZED"

\* a request with a valid key in the header and a valid session in its
\* cookies was served as an API-key request
C16_Witness ==
  \E r \in Reqs :
    /\ req[r].hdr = "s1" /\ req[r].access /\ req[r].idtok = "u1"
    /\ req[r].handler /\ req[r].keySet /\ req[r].userID = ""

\* the three cache reads of a request all returned a value
CacheHit(q) == q.cv # "" /\ q.ct # "" /\ q.co # ""

\* C17: a request whose cache reads did not all return a value (no entry, a
\* part missing, or a read that failed) goes to the authoritative lookup, and
\* that lookup alone decides: 500 on its error, 401 unless it found the key
\* usable, on to the limiter if it did.  A failed read never makes a hit.
C17_MissFallsBack ==
  \A r \in Reqs :
    LET q == req[r]
    IN /\ "cache_get" \in q.failed /\ q.pc \notin {"cache_get2", "cache_get3"}
            => ~CacheHit(q)
       /\ q.hash # "" /\ q.pc \notin {"cache_get1", "cache_get2", "cache_get3"}
            /\ ~CacheHit(q) =>
            /\ q.pc = "db_lookup" \/ q.looked
            /\ q.looked /\ "db" \in q.failed => q.pc = "done" /\ q.status = 500
            /\ q.looked /\ "db" \notin q.failed /\ ~q.dbValid
                 => q.pc = "done" /\ q.status = 401
            /\ q.looked /\ q.dbValid => q.status \notin {401, 500}
            /\ q.keySet => q.dbValid

\* a request was served after a cache read of it failed while the key's
\* entry was in the cache
C17_Witness ==
  \E r \in Reqs :
    /\ "cache_get" \in req[r].failed /\ req[r].looked /\ req[r].handler
    /\ Readable(cache[req[r].hash]["valid"])

\* C18: a step that ends a last-used update, failed or not, changes no
\* request, no cache entry, no counter and nothing of a key but its
\* last-used time; a request waiting on the limiter's store can go on while
\* its key's update is outstanding.
C18_LastUsedDetached ==
  [][(touch' # touch /\ touch' \subseteq touch) =>
       /\ UNCHANGED <<req, cache, rate, orgs>>
       /\ \A h \in Hashes :
            [apiKeys'[h] EXCEPT !.lastUsedAt = 0] = [apiKeys[h] EXCEPT !.lastUsedAt = 0]]_vars

\* a request was served while the last-used update of its key was still
\* outstanding
C18_Witness ==
  \E r \in Reqs :
    /\ req[r].pc = "done" /\ req[r].handler /\ req[r].wrote
    /\ req[r].hash \in touch

C20_HeadersOnEveryResponse ==
  \A r \in Reqs :
    LET q == req[r]
    IN q.pc = "done" /\ q.keySet /\ "rate" \in Range(q.gates) =>
         /\ Len(q.rlh) = 3
         /\ q.rlh[1] = getLimitForTier(q.tier)
         /\ q.rlh[2] >= 0
         /\ q.rlh[3] = (q.window + 1) * WindowSeconds

\* C21: every finished request of an organization that went through the
\* usage gate, served or rejected, carries the three monthly headers, and
\* the limit they report is the organization's stored limit.
C21_MonthlyHeadersOnEveryResponse ==
  \A r \in Reqs :
    LET q == req[r]
    IN q.pc = "done" /\ q.orgID # "" /\ "usage" \in Range(q.gates) =>
         /\ Len(q.mh) = 3
         /\ q.mh[1] = orgs[q.orgID].limit

\* C22: whatever invite acceptances, sign-ups, organization setups and member
\* removals ran and however they interleaved, every user has at most one
\* active organization membership.
C22_SingleMembership ==
  \A u \in Subs : Cardinality(ActiveOf(u)) <= 1

\* two handlers raced for one user: both passed the membership check, one
\* created the membership and the insert of the other was refused
C22_Witness ==
  \E c1, c2 \in Calls :
    /\ c1 # c2 /\ calls[c1].user = calls[c2].user
    /\ calls[c1].op \in {"accept", "setup"} /\ calls[c2].op \in {"accept", "setup"}
    /\ calls[c1].pc \in {"acc_accept", "done"} /\ calls[c1].status \in {0, 200}
    /\ calls[c2].pc = "done" /\ calls[c2].status = 500
    /\ calls[c1].org # calls[c2].org
    /\ ActiveOf(calls[c1].user) = {<<calls[c1].user, calls[c1].org>>}

\* C23: every request that reached its handler, by API key or by session, was
\* counted by an increment of a rate-window counter before the handler ran:
\* its own INCR returned a count of at least one for the window it arrived in.
C23_EveryServedRequestCounted ==
  \A r \in Reqs :
    req[r].handler => /\ req[r].count >= 1
                      /\ "rate" \notin req[r].failed

\* C24: every rate-window counter in the store carries an expiry, except
\* while the request whose increment created it is between its INCR and its
\* EXPIRE; a counter without one is never removed.
C24_EveryCounterExpires ==
  \A k \in DOMAIN rate :
    \/ rate[k].exp # 0
    \/ \E r \in Reqs : req[r].pc = "rl_expire" /\ RateKey(req[r]) = k

\* C25: every API-key request that was resolved, from the cache or from the
\* lookup, submitted a last-used update for its key: with the key store up,
\* the update is still outstanding or the key's last-used time is no older
\* than the start of the minute in which the request was resolved.
C25_LastUsedOnEveryResolution ==
  \A r \in Reqs :
    LET q == req[r]
    IN q.keySet =>
         \/ q.hash \in touch
         \/ apiKeys[q.hash].lastUsedAt >= q.window * WindowSeconds

\* C26: the per-minute limit the limiter applies to an API-key request of
\* tier T is the rate_limit_rpm that keys of tier T are created with.
C26_AppliedLimitMatchesKeyLimit ==
  \A r \in Reqs :
    LET q == req[r]
    IN q.keySet /\ "rate" \in Range(q.gates) => q.limit = rateLimitForTier(q.tier)

\* C27: within one window, whatever the interleaving of the concurrent
\* requests of a key, the limiter lets through at most the tier limit of the
\* requests whose increment succeeded; two requests in flight never hold the
\* same count, and a request is let through iff its own count is within the
\* limit.
C27_NoOverAdmission ==
  /\ \A k \in DOMAIN hist.admitted :
       hist.admitted[k] <= getLimitForTier(apiKeys[k[1]].tier)
  /\ \A r1, r2 \in Reqs :
       r1 # r2 /\ req[r1].count >= 1 /\ req[r2].count >= 1
         /\ RateKey(req[r1]) = RateKey(req[r2]) => req[r1].count # req[r2].count
  /\ \A r \in Reqs :
       req[r].pc = "done" /\ req[r].count >= 1 =>
         (req[r].handler <=> req[r].count <= req[r].limit)

\* two requests of one key are in flight with the counts L and L+1: one was
\* let through as the last of the window, the other was denied
C27_Witness ==
  \E r1, r2 \in Reqs :
    /\ req[r1].pc = "done" /\ req[r2].pc = "done"
    /\ req[r1].count = req[r1].limit /\ req[r1].handler
    /\ req[r2].count = req[r2].limit + 1 /\ req[r2].status = 429
    /\ AdmittedIn(RateKey(req[r1])) = req[r1].limit

\* the count a request of a key was judged on is at most the number of
\* requests of that key that arrived in its window, and the monthly count it
\* was judged on is at most the increments made for its own organization
JudgedOnOwnCounters ==
  \A r \in Reqs :
    LET q == req[r]
    IN /\ q.count >= 1 => q.count <= Arrivals(<<q.keyHash, q.window>>)
       /\ Len(q.mh) = 3 => q.mh[2] <= hist.base[q.orgID] + hist.incs[q.orgID]

UsageRejections == {"USAGE_LIMIT_EXCEEDED", "USAGE_LIMIT_THROTTLED"}

C30_InviteConsumedOnce ==
  \A i \in InviteIds :
    /\ Cardinality(invites[i].made) <= 1
    /\ invites[i].revoked => invites[i].made = {}
    /\ ~(invites[i].accepted /\ invites[i].revoked)
=============================================================================
